---- MODULE Spec2Model ----
(***************************************************************************)
(* The T.I.T.S. bridge client (src/TitsClient.py): TitsGameContext, its    *)
(* command processor, and the asyncio tasks it starts with async_start.    *)
(*                                                                         *)
(* One asyncio event loop runs everything.  A call of async_start(co)      *)
(* creates a task; its first segment runs later, in creation order (the    *)
(* queue `ready`).  A coroutine is atomic between two awaits that really   *)
(* suspend: connect_to_api suspends in websockets.connect (the handshake)  *)
(* and in recv (the trigger-list response); send on an open connection     *)
(* and close do not let another task touch the context's fields before     *)
(* the statement after them.                                               *)
(***************************************************************************)
EXTENDS Integers, Sequences, FiniteSets, TLC

\* ------------------------------------------------------------------ names
trigger_ap_receive == "AP-Receive"
trigger_ap_receive_progression == "AP-Receive-Progression"
trigger_ap_receive_useful == "AP-Receive-Useful"
trigger_ap_receive_filler == "AP-Receive-Filler"
trigger_ap_receive_trap == "AP-Receive-Trap"
trigger_ap_goal == "AP-Goal"
trigger_ap_deathlink == "AP-Deathlink"

\* titsSocket = None: connection objects are numbered from 1.
None == 0

\* titsPort's class default, also _cmd_tits_connect's default argument.
DefaultPort == 42069

\* titsAlias's class default.
DefaultAlias == "AP Tits Client"

\* ----------------------------------------------------------------- bounds
\* connect_to_api invocations in one run
MaxConnects == 2
\* tasks created by async_start whose first segment has not run yet
MaxReady == 2
\* descriptors in one trigger-list response
MaxResp == 2
\* parts in the data of one PrintJSON event
MaxParts == 2

\* ----------------------------------------------------------------- inputs
Ports == {DefaultPort, DefaultPort + 1}
Aliases == {DefaultAlias, "second"}

\* The multiworld (CommonContext.slot_info): slots 1 and 2 are players, slot 3
\* is a group whose only member is slot 1, slot 4 a group whose only member is
\* slot 2; teams 0 and 1.
Slots == 1 .. 4
Teams == {0, 1}
SlotInfo ==
  [s \in Slots |->
     [game |-> IF s = 2 THEN "GameB" ELSE "GameA",
      group_members |-> IF s = 3 THEN {1} ELSE IF s = 4 THEN {2} ELSE {}]]

\* Sequences over S of length at most n.
SeqUpTo(S, n) == UNION {[1 .. k -> S] : k \in 0 .. n}

\* What the overlay can answer to a trigger-list request.  A descriptor is
\* {"name": .., "ID": ..}; Bad stands for a descriptor without "name" or "ID";
\* Garbage for a text json.loads rejects or without data.triggers.
RespNames == {trigger_ap_receive, trigger_ap_deathlink}
RespIDs == {"id1", "id2"}
Bad == [bad |-> TRUE]
Descriptors == [name : RespNames, ID : RespIDs] \cup {Bad}
Garbage == [garbage |-> TRUE]
NoResp == [none |-> TRUE]
TriggerList(ds) == [data |-> [triggers |-> ds]]
Responses == {TriggerList(ds) : ds \in SeqUpTo(Descriptors, MaxResp)} \cup {Garbage}
ResponsesSmall ==
  {Garbage,
   TriggerList(<<[name |-> trigger_ap_receive, ID |-> "id1"]>>),
   TriggerList(<<[name |-> trigger_ap_deathlink, ID |-> "id2"]>>),
   TriggerList(<<[name |-> trigger_ap_receive, ID |-> "id2"], Bad>>)}

\* An answer with the two triggers of a progression item.
ResponsesItem ==
  {TriggerList(<<[name |-> trigger_ap_receive, ID |-> "id1"],
                 [name |-> trigger_ap_receive_progression, ID |-> "id2"]>>)}

\* PrintJSON events.  A part of data carries "flags" or not.
FlagValues == {0, 1, 2, 3, 4}
Parts == {[type |-> "text"]} \cup [type : {"item_id"}, flags : FlagValues]
ItemSendEvents ==
  [type : {"ItemSend"}, receiving : Slots, item : [player : Slots],
   data : SeqUpTo(Parts, MaxParts)]
GoalEvents == [type : {"Goal"}, team : Teams, slot : Slots]
OtherEvents == {[type |-> "Chat"], [data |-> <<[type |-> "text"]>>]}
Events == ItemSendEvents \cup GoalEvents \cup OtherEvents
EventsSmall ==
  {[type |-> "ItemSend", receiving |-> 1, item |-> [player |-> 1],
    data |-> <<[type |-> "item_id", flags |-> 1]>>],
   [type |-> "ItemSend", receiving |-> 1, item |-> [player |-> 2],
    data |-> <<[type |-> "item_id", flags |-> 1]>>],
   [type |-> "Goal", team |-> 0, slot |-> 1],
   [type |-> "Chat"]}

DeathLinks == [source : {"Alice", "Bob"}, cause : {"", "lava"}]
DeathLinksSmall == {[source |-> "Bob", cause |-> ""]}

Packages == {"Connected", "RoomInfo"}

\* ---------------------------------------------------------------- helpers
\* dict(): no key.
EmptyDict == [n \in {} |-> ""]

\* d[k] = v on a dict.
Put(d, k, v) == [n \in DOMAIN d \cup {k} |-> IF n = k THEN v ELSE d[n]]

\* json.dumps of the two request shapes, kept as the structure it encodes.
request_trigger_list(id) ==
  [apiName |-> "TITSPublicApi", apiVersion |-> "1.0", requestID |-> id,
   messageType |-> "TITSTriggerListRequest"]

activate_trigger(id, trigger_id) ==
  [apiName |-> "TITSPublicApi", apiVersion |-> "1.0", requestID |-> id,
   messageType |-> "TITSTriggerActivateRequest",
   data |-> [triggerID |-> trigger_id]]

\* The two kinds of task async_start is given.
SendTask(name) == [kind |-> "send_trigger", name |-> name]
ConnectTask(i) == [kind |-> "connect_to_api", id |-> i]

\* ------------------------------------------------------------------ state
VARIABLES
  titsPort,      \* TitsGameContext.titsPort
  titsSocket,    \* TitsGameContext.titsSocket: None or a connection
  titsTriggers,  \* TitsGameContext.titsTriggers: the dict name -> ID
  titsAlias,     \* TitsGameContext.titsAlias
  game,          \* TitsGameContext.game
  slot,          \* CommonContext.slot, the local participant's slot
  team,          \* CommonContext.team, the local participant's team
  connects,      \* the connect_to_api coroutines: [port, pc, ids]; coroutine i
                 \* owns connection i once its handshake has succeeded; ids
                 \* are the trigger IDs stored from the answer it read
  open,          \* the connections that are open
  ready,         \* tasks created by async_start, first segment not yet run
  sent,          \* the messages the latest step put on overlay connections
  lastResp,      \* the trigger-list response get_trigger_list read last
  unretrieved,   \* names of send_trigger tasks that ended by raising
  lastCall,      \* the latest call made into the context by its caller, with
                 \* what tits_status logged when it is that call
  dispatched,    \* trigger names lastCall passed to async_start(send_trigger)
  raised         \* the exception lastCall raised to its caller, "" if none

vars ==
  <<titsPort, titsSocket, titsTriggers, titsAlias, game, slot, team, connects,
    open, ready, sent, lastResp, unretrieved, lastCall, dispatched, raised>>

ctxVars == <<titsPort, titsSocket, titsTriggers, titsAlias, game, slot, team>>
netVars == <<connects, open, lastResp, unretrieved>>

\* The state after TitsGameContext(...), with the identity the server gives
\* the client: slot 1 of team 0.
Init ==
  /\ titsPort = DefaultPort
  /\ titsSocket = None
  /\ titsTriggers = EmptyDict
  /\ titsAlias = DefaultAlias
  /\ game = ""
  /\ slot = 1
  /\ team = 0
  /\ connects = <<>>
  /\ open = {}
  /\ ready = <<>>
  /\ sent = <<>>
  /\ lastResp = NoResp
  /\ unretrieved = {}
  /\ lastCall = [op |-> "init"]
  /\ dispatched = <<>>
  /\ raised = ""

\* ------------------------------------------------------- event handlers
\* args.get(key, default)
Get(args, key, default) == IF key \in DOMAIN args THEN args[key] ELSE default

\* CommonContext.slot_concerns_self(slot): the slot is the local one, or a
\* group the local slot is a member of.
slot_concerns_self(s) ==
  \/ s = slot
  \/ s \in DOMAIN SlotInfo /\ slot \in SlotInfo[s].group_members

\* flags = [part["flags"] for part in args["data"] if "flags" in part]
FlagsOf(data) ==
  LET bearing == SelectSeq(data, LAMBDA part : "flags" \in DOMAIN part)
  IN  [i \in 1 .. Len(bearing) |-> bearing[i].flags]

\* Mutant of AllFlagsAre: any() where the code has all().
AllFlagsAre_Any(flags, v) ==
  /\ flags # <<>>
  /\ \E i \in 1 .. Len(flags) : flags[i] = v

\* Mutant of AllFlagsAre: an event without flags taken for one whose flags
\* are all 0.
AllFlagsAre_EmptyIsFiller(flags, v) ==
  IF flags = <<>>
  THEN v = 0
  ELSE \A i \in 1 .. Len(flags) : flags[i] = v

\* flags and all(flag == v for flag in flags)
AllFlagsAre(flags, v) ==
  /\ flags # <<>>
  /\ \A i \in 1 .. Len(flags) : flags[i] = v

\* Mutant of ItemSendTriggers: AP-Receive started under the flags check too.
ItemSendTriggers_NeedsFlags(args) ==
  IF /\ Get(args, "type", "") = "ItemSend"
     /\ slot_concerns_self(args.receiving)
     /\ slot_concerns_self(args.item.player)
  THEN LET flags == FlagsOf(args.data)
       IN  (IF flags # <<>> THEN <<trigger_ap_receive>> ELSE <<>>)
           \o (IF AllFlagsAre(flags, 1)
               THEN <<trigger_ap_receive_progression>> ELSE <<>>)
           \o (IF AllFlagsAre(flags, 2)
               THEN <<trigger_ap_receive_useful>> ELSE <<>>)
           \o (IF AllFlagsAre(flags, 4)
               THEN <<trigger_ap_receive_trap>> ELSE <<>>)
           \o (IF AllFlagsAre(flags, 0)
               THEN <<trigger_ap_receive_filler>> ELSE <<>>)
  ELSE <<>>

\* Mutant of ItemSendTriggers: the bits of useful and trap exchanged.
ItemSendTriggers_SwappedBits(args) ==
  IF /\ Get(args, "type", "") = "ItemSend"
     /\ slot_concerns_self(args.receiving)
     /\ slot_concerns_self(args.item.player)
  THEN LET flags == FlagsOf(args.data)
       IN  <<trigger_ap_receive>>
           \o (IF AllFlagsAre(flags, 1)
               THEN <<trigger_ap_receive_progression>> ELSE <<>>)
           \o (IF AllFlagsAre(flags, 4)
               THEN <<trigger_ap_receive_useful>> ELSE <<>>)
           \o (IF AllFlagsAre(flags, 2)
               THEN <<trigger_ap_receive_trap>> ELSE <<>>)
           \o (IF AllFlagsAre(flags, 0)
               THEN <<trigger_ap_receive_filler>> ELSE <<>>)
  ELSE <<>>

\* Mutant of ItemSendTriggers: AP-Receive started after the classification
\* triggers.
ItemSendTriggers_ClassFirst(args) ==
  IF /\ Get(args, "type", "") = "ItemSend"
     /\ slot_concerns_self(args.receiving)
     /\ slot_concerns_self(args.item.player)
  THEN LET flags == FlagsOf(args.data)
       IN  (IF AllFlagsAre(flags, 1)
            THEN <<trigger_ap_receive_progression>> ELSE <<>>)
           \o (IF AllFlagsAre(flags, 2)
               THEN <<trigger_ap_receive_useful>> ELSE <<>>)
           \o (IF AllFlagsAre(flags, 4)
               THEN <<trigger_ap_receive_trap>> ELSE <<>>)
           \o (IF AllFlagsAre(flags, 0)
               THEN <<trigger_ap_receive_filler>> ELSE <<>>)
           \o <<trigger_ap_receive>>
  ELSE <<>>

\* The item branch of on_print_json: the triggers handed to async_start, in
\* the order of the calls.
ItemSendTriggers(args) ==
  IF /\ Get(args, "type", "") = "ItemSend"
     /\ slot_concerns_self(args.receiving)
     /\ slot_concerns_self(args.item.player)
  THEN LET flags == FlagsOf(args.data)
       IN  <<trigger_ap_receive>>
           \o (IF AllFlagsAre(flags, 1)
               THEN <<trigger_ap_receive_progression>> ELSE <<>>)
           \o (IF AllFlagsAre(flags, 2)
               THEN <<trigger_ap_receive_useful>> ELSE <<>>)
           \o (IF AllFlagsAre(flags, 4)
               THEN <<trigger_ap_receive_trap>> ELSE <<>>)
           \o (IF AllFlagsAre(flags, 0)
               THEN <<trigger_ap_receive_filler>> ELSE <<>>)
  ELSE <<>>

\* The goal branch of on_print_json.
GoalTriggers(args) ==
  IF /\ Get(args, "type", "") = "Goal"
     /\ (slot_concerns_self(args.team) \/ slot_concerns_self(args.slot))
  THEN <<trigger_ap_goal>>
  ELSE <<>>

\* async_start(self.send_trigger(name)) for each name, in order.
Started(names) == [i \in 1 .. Len(names) |-> SendTask(names[i])]

\* on_print_json(args)
on_print_json(args) ==
  LET names == ItemSendTriggers(args) \o GoalTriggers(args)
  IN  /\ Len(ready) + Len(names) <= MaxReady
      /\ ready' = ready \o Started(names)
      /\ lastCall' = [op |-> "on_print_json", args |-> args]
      /\ dispatched' = names
      /\ raised' = ""
      /\ sent' = <<>>
      /\ UNCHANGED <<ctxVars, netVars>>

\* Mutant of on_deathlink: no trigger for a death with a stated cause.
on_deathlink_OnlyWithoutCause(data) ==
  LET names == IF data.cause = "" THEN <<trigger_ap_deathlink>> ELSE <<>>
  IN  /\ Len(ready) + Len(names) <= MaxReady
      /\ ready' = ready \o Started(names)
      /\ lastCall' = [op |-> "on_deathlink", data |-> data]
      /\ dispatched' = names
      /\ raised' = ""
      /\ sent' = <<>>
      /\ UNCHANGED <<ctxVars, netVars>>

\* on_deathlink(data)
on_deathlink(data) ==
  LET names == <<trigger_ap_deathlink>>
  IN  /\ Len(ready) + Len(names) <= MaxReady
      /\ ready' = ready \o Started(names)
      /\ lastCall' = [op |-> "on_deathlink", data |-> data]
      /\ dispatched' = names
      /\ raised' = ""
      /\ sent' = <<>>
      /\ UNCHANGED <<ctxVars, netVars>>

\* Mutant of send_trigger: the failure of the send raised to the caller of
\* the handler that started the task.
send_trigger_FailureRaises ==
  /\ ready # <<>>
  /\ Head(ready).kind = "send_trigger"
  /\ ready' = Tail(ready)
  /\ LET trigger_name == Head(ready).name
     IN  IF titsSocket # None /\ trigger_name \in DOMAIN titsTriggers
         THEN IF titsSocket \in open
              THEN /\ sent' = <<[conn |-> titsSocket,
                                 msg |-> activate_trigger(titsAlias,
                                           titsTriggers[trigger_name])]>>
                   /\ UNCHANGED <<unretrieved, raised>>
              ELSE /\ raised' = "ConnectionClosed"
                   /\ sent' = <<>>
                   /\ UNCHANGED unretrieved
         ELSE /\ sent' = <<>>
              /\ UNCHANGED <<unretrieved, raised>>
  /\ UNCHANGED <<ctxVars, connects, open, lastResp, lastCall, dispatched>>

\* Mutant of send_trigger: no lookup before the send, a missing name sent with
\* an empty ID.
send_trigger_NoLookup ==
  /\ ready # <<>>
  /\ Head(ready).kind = "send_trigger"
  /\ ready' = Tail(ready)
  /\ LET trigger_name == Head(ready).name
     IN  IF titsSocket # None
         THEN IF titsSocket \in open
              THEN /\ sent' = <<[conn |-> titsSocket,
                                 msg |-> activate_trigger(titsAlias,
                                           Get(titsTriggers, trigger_name, ""))]>>
                   /\ UNCHANGED unretrieved
              ELSE /\ unretrieved' = unretrieved \cup {trigger_name}
                   /\ sent' = <<>>
         ELSE /\ sent' = <<>>
              /\ UNCHANGED unretrieved
  /\ UNCHANGED <<ctxVars, connects, open, lastResp, lastCall, dispatched, raised>>

\* send_trigger(trigger_name), run as a task: the task at the head of ready.
\* send on a closed connection raises inside the task.
send_trigger ==
  /\ ready # <<>>
  /\ Head(ready).kind = "send_trigger"
  /\ ready' = Tail(ready)
  /\ LET trigger_name == Head(ready).name
     IN  IF titsSocket # None /\ trigger_name \in DOMAIN titsTriggers
         THEN IF titsSocket \in open
              THEN /\ sent' = <<[conn |-> titsSocket,
                                 msg |-> activate_trigger(titsAlias,
                                           titsTriggers[trigger_name])]>>
                   /\ UNCHANGED unretrieved
              ELSE /\ unretrieved' = unretrieved \cup {trigger_name}
                   /\ sent' = <<>>
         ELSE /\ sent' = <<>>
              /\ UNCHANGED unretrieved
  /\ UNCHANGED <<ctxVars, connects, open, lastResp, lastCall, dispatched, raised>>

\* ------------------------------------------------------------ commands
\* _cmd_tits_connect(optional_port): async_start(connect_to_api(port))
cmd_tits_connect(port) ==
  /\ Len(connects) < MaxConnects
  /\ Len(ready) < MaxReady
  /\ connects' = Append(connects, [port |-> port, pc |-> "start", ids |-> {}])
  /\ ready' = Append(ready, ConnectTask(Len(connects) + 1))
  /\ lastCall' = [op |-> "tits_connect", port |-> port]
  /\ dispatched' = <<>>
  /\ raised' = ""
  /\ sent' = <<>>
  /\ UNCHANGED <<ctxVars, open, lastResp, unretrieved>>

\* _cmd_tits_alias(alias)
cmd_tits_alias(alias) ==
  /\ titsAlias' = alias
  /\ lastCall' = [op |-> "tits_alias", alias |-> alias]
  /\ dispatched' = <<>>
  /\ raised' = ""
  /\ sent' = <<>>
  /\ UNCHANGED <<titsPort, titsSocket, titsTriggers, game, slot, team,
                 netVars, ready>>

\* Mutant of tits_status: the loop over titsTriggers outside the test of
\* titsSocket, the entries listed with either message.
tits_status_ListsAlways ==
  /\ lastCall' =
       IF titsSocket # None
       THEN [op |-> "tits_status", connected |-> TRUE,
             port |-> connects[titsSocket].port, found |-> titsTriggers]
       ELSE [op |-> "tits_status", connected |-> FALSE, found |-> titsTriggers]
  /\ dispatched' = <<>>
  /\ raised' = ""
  /\ sent' = <<>>
  /\ UNCHANGED <<ctxVars, netVars, ready>>

\* tits_status(): what it logs is kept in lastCall: whether it reports a
\* connection, the port it names, and the entries it lists.
tits_status ==
  /\ lastCall' =
       IF titsSocket # None
       THEN [op |-> "tits_status", connected |-> TRUE,
             port |-> connects[titsSocket].port, found |-> titsTriggers]
       ELSE [op |-> "tits_status", connected |-> FALSE]
  /\ dispatched' = <<>>
  /\ raised' = ""
  /\ sent' = <<>>
  /\ UNCHANGED <<ctxVars, netVars, ready>>

\* on_package(cmd, args)
on_package(cmd) ==
  /\ IF cmd = "Connected"
     THEN /\ Len(connects) < MaxConnects
          /\ Len(ready) < MaxReady
          /\ game' = SlotInfo[slot].game
          /\ connects' = Append(connects, [port |-> titsPort, pc |-> "start", ids |-> {}])
          /\ ready' = Append(ready, ConnectTask(Len(connects) + 1))
     ELSE UNCHANGED <<game, connects, ready>>
  /\ lastCall' = [op |-> "on_package", cmd |-> cmd]
  /\ dispatched' = <<>>
  /\ raised' = ""
  /\ sent' = <<>>
  /\ UNCHANGED <<titsPort, titsSocket, titsTriggers, titsAlias, slot, team,
                 open, lastResp, unretrieved>>

\* Mutant of disconnect: the overlay connection closed and forgotten along
\* with the game.
disconnect_DropsOverlay ==
  /\ game' = ""
  /\ titsSocket' = None
  /\ open' = open \ {titsSocket}
  /\ lastCall' = [op |-> "disconnect"]
  /\ dispatched' = <<>>
  /\ raised' = ""
  /\ sent' = <<>>
  /\ UNCHANGED <<titsPort, titsTriggers, titsAlias, slot, team, connects,
                 lastResp, unretrieved, ready>>

\* disconnect(allow_autoreconnect)
disconnect ==
  /\ game' = ""
  /\ lastCall' = [op |-> "disconnect"]
  /\ dispatched' = <<>>
  /\ raised' = ""
  /\ sent' = <<>>
  /\ UNCHANGED <<titsPort, titsSocket, titsTriggers, titsAlias, slot, team,
                 netVars, ready>>

\* connection_closed(): self.titsSocket.close(), whatever titsSocket is.
\* None has no close: the call raises AttributeError.
connection_closed ==
  /\ IF titsSocket = None
     THEN /\ raised' = "AttributeError"
          /\ UNCHANGED open
     ELSE /\ raised' = ""
          /\ open' = open \ {titsSocket}
  /\ lastCall' = [op |-> "connection_closed", socket |-> titsSocket]
  /\ dispatched' = <<>>
  /\ sent' = <<>>
  /\ UNCHANGED <<ctxVars, connects, lastResp, unretrieved, ready>>

\* ----------------------------------------------------- connect_to_api
\* Mutant of StoreTriggers: a descriptor without "name" or "ID" skipped and
\* the loop carried on.
RECURSIVE StoreTriggers_SkipsBad(_, _)
StoreTriggers_SkipsBad(d, triggers) ==
  IF triggers = <<>>
  THEN d
  ELSE IF Head(triggers) = Bad
       THEN StoreTriggers_SkipsBad(d, Tail(triggers))
       ELSE StoreTriggers_SkipsBad(Put(d, Head(triggers).name, Head(triggers).ID),
                                   Tail(triggers))

\* The loop of get_trigger_list over data["data"]["triggers"]: the directory
\* after the descriptors up to the first one without "name" or "ID".
RECURSIVE StoreTriggers(_, _)
StoreTriggers(d, triggers) ==
  IF triggers = <<>> \/ Head(triggers) = Bad
  THEN d
  ELSE StoreTriggers(Put(d, Head(triggers).name, Head(triggers).ID),
                     Tail(triggers))

\* The response parses and the loop runs to its end.
Parses(result) ==
  /\ "data" \in DOMAIN result
  /\ \A i \in 1 .. Len(result.data.triggers) : result.data.triggers[i] # Bad

SetPc(i, pc) == [connects EXCEPT ![i].pc = pc]

\* The IDs get_trigger_list stores from an answer that parses.
StoredIDs(result) ==
  {result.data.triggers[k].ID : k \in 1 .. Len(result.data.triggers)}

\* First segment of connect_to_api(port), up to the await of
\* websockets.connect.
connect_to_api_start ==
  /\ ready # <<>>
  /\ Head(ready).kind = "connect_to_api"
  /\ ready' = Tail(ready)
  /\ LET i == Head(ready).id
     IN  /\ titsPort' = connects[i].port
         /\ connects' = SetPc(i, "handshake")
  /\ sent' = <<>>
  /\ UNCHANGED <<titsSocket, titsTriggers, titsAlias, game, slot, team, open,
                 lastResp, unretrieved, lastCall, dispatched, raised>>

\* websockets.connect returns: titsSocket is set, get_trigger_list sends
\* its request and awaits recv.
connect_to_api_connected(i) ==
  /\ connects[i].pc = "handshake"
  /\ titsSocket' = i
  /\ open' = open \cup {i}
  /\ sent' = <<[conn |-> i, msg |-> request_trigger_list(titsAlias)]>>
  /\ connects' = SetPc(i, "recv")
  /\ UNCHANGED <<titsPort, titsTriggers, titsAlias, game, slot, team, ready,
                 lastResp, unretrieved, lastCall, dispatched, raised>>

\* Mutant of connect_to_api_except: the except branch without titsSocket = None.
connect_to_api_except_KeepsSocket(i) ==
  /\ UNCHANGED titsSocket
  /\ connects' = SetPc(i, "failed")

\* The except branch of connect_to_api.
connect_to_api_except(i) ==
  /\ titsSocket' = None
  /\ connects' = SetPc(i, "failed")

\* websockets.connect raises (refused, timeout, bad handshake).
connect_to_api_refused(i) ==
  /\ connects[i].pc = "handshake"
  /\ connect_to_api_except(i)
  /\ sent' = <<>>
  /\ UNCHANGED <<titsPort, titsTriggers, titsAlias, game, slot, team, open,
                 ready, lastResp, unretrieved, lastCall, dispatched, raised>>

\* recv returns the overlay's answer; the rest of get_trigger_list.
get_trigger_list_recv(i, result) ==
  /\ connects[i].pc = "recv"
  /\ i \in open
  /\ lastResp' = result
  /\ IF "data" \in DOMAIN result
     THEN titsTriggers' = StoreTriggers(titsTriggers, result.data.triggers)
     ELSE UNCHANGED titsTriggers
  /\ IF Parses(result)
     THEN /\ connects' = [SetPc(i, "done") EXCEPT ![i].ids = StoredIDs(result)]
          /\ UNCHANGED titsSocket
     ELSE connect_to_api_except(i)
  /\ sent' = <<>>
  /\ UNCHANGED <<titsPort, titsAlias, game, slot, team, open, ready,
                 unretrieved, lastCall, dispatched, raised>>

\* recv raises: the connection was closed meanwhile.
get_trigger_list_closed(i) ==
  /\ connects[i].pc = "recv"
  /\ i \notin open
  /\ connect_to_api_except(i)
  /\ sent' = <<>>
  /\ UNCHANGED <<titsPort, titsTriggers, titsAlias, game, slot, team, open,
                 ready, lastResp, unretrieved, lastCall, dispatched, raised>>

\* The overlay application closes a connection or goes away.
OverlayDrop(i) ==
  /\ i \in open
  /\ open' = open \ {i}
  /\ sent' = <<>>
  /\ UNCHANGED <<ctxVars, connects, ready, lastResp, unretrieved, lastCall,
                 dispatched, raised>>

\* ------------------------------------------------------ specifications
\* The overlay connection and the directory: connects, the notifications
\* that start sends, the tasks, the overlay's answers and drops.
Next ==
  \/ cmd_tits_connect(DefaultPort)
  \/ connection_closed
  \/ \E data \in DeathLinksSmall : on_deathlink(data)
  \/ send_trigger
  \/ connect_to_api_start
  \/ \E i \in 1 .. Len(connects) : connect_to_api_connected(i)
  \/ \E i \in 1 .. Len(connects) : connect_to_api_refused(i)
  \/ \E i \in 1 .. Len(connects), result \in ResponsesSmall : get_trigger_list_recv(i, result)
  \/ \E i \in 1 .. Len(connects) : get_trigger_list_closed(i)
  \/ \E i \in 1 .. Len(connects) : OverlayDrop(i)

Spec == Init /\ [][Next]_vars

\* No connect_to_api is between its start and its end.
NoConnectInFlight ==
  \A i \in 1 .. Len(connects) : connects[i].pc \in {"done", "failed"}

\* The directory: connects and reconnects one after the other, each started
\* when the one before has ended, with every answer of the overlay.
NextDir ==
  \/ NoConnectInFlight /\ cmd_tits_connect(DefaultPort)
  \/ connect_to_api_start
  \/ \E i \in 1 .. Len(connects) : connect_to_api_connected(i)
  \/ \E i \in 1 .. Len(connects) : connect_to_api_refused(i)
  \/ \E i \in 1 .. Len(connects), result \in Responses : get_trigger_list_recv(i, result)

SpecDir == Init /\ [][NextDir]_vars

\* The commands and the coordination server's hooks around connects that
\* all come to an end by themselves: no send, no drop by the overlay.
NextCmd ==
  \/ \E port \in Ports : cmd_tits_connect(port)
  \/ \E alias \in Aliases : cmd_tits_alias(alias)
  \/ tits_status
  \/ \E cmd \in Packages : on_package(cmd)
  \/ disconnect
  \/ connection_closed
  \/ connect_to_api_start
  \/ \E i \in 1 .. Len(connects) : connect_to_api_connected(i)
  \/ \E i \in 1 .. Len(connects) : connect_to_api_refused(i)
  \/ \E i \in 1 .. Len(connects), result \in ResponsesSmall : get_trigger_list_recv(i, result)
  \/ \E i \in 1 .. Len(connects) : get_trigger_list_closed(i)

SpecCmd == Init /\ [][NextCmd]_vars

\* An item notification and its sends, around connects, with an overlay that
\* knows both triggers of the item and can go away.
NextSend ==
  \/ cmd_tits_connect(DefaultPort)
  \/ connection_closed
  \/ \E args \in EventsSmall : on_print_json(args)
  \/ send_trigger
  \/ connect_to_api_start
  \/ \E i \in 1 .. Len(connects) : connect_to_api_connected(i)
  \/ \E i \in 1 .. Len(connects) : connect_to_api_refused(i)
  \/ \E i \in 1 .. Len(connects), result \in ResponsesItem : get_trigger_list_recv(i, result)
  \/ \E i \in 1 .. Len(connects) : get_trigger_list_closed(i)
  \/ \E i \in 1 .. Len(connects) : OverlayDrop(i)

SpecSend == Init /\ [][NextSend]_vars

\* Connects called while another one is in flight: by the command and by the
\* "Connected" package.
NextRace ==
  \/ (connects = <<>> \/ ~NoConnectInFlight) /\ cmd_tits_connect(DefaultPort)
  \/ ~NoConnectInFlight /\ on_package("Connected")
  \/ connect_to_api_start
  \/ \E i \in 1 .. Len(connects) : connect_to_api_connected(i)
  \/ \E i \in 1 .. Len(connects) : connect_to_api_refused(i)
  \/ \E i \in 1 .. Len(connects), result \in ResponsesSmall : get_trigger_list_recv(i, result)

SpecRace == Init /\ [][NextRace]_vars

\* One notification, drawn from all events, and the tasks it starts.
NextEv ==
  \/ lastCall.op = "init" /\ \E args \in Events : on_print_json(args)
  \/ lastCall.op = "init" /\ \E data \in DeathLinks : on_deathlink(data)
  \/ send_trigger

SpecEv == Init /\ [][NextEv]_vars

\* ------------------------------------------------- properties: directory
\* The names a sequence of well-formed descriptors mentions.
DescNames(ds) == {ds[k].name : k \in 1 .. Len(ds)}

\* The ID of the last descriptor of ds named n.
LastID(ds, n) ==
  LET k == CHOOSE k \in 1 .. Len(ds) :
             /\ ds[k].name = n
             /\ \A m \in (k + 1) .. Len(ds) : ds[m].name # n
  IN  ds[k].ID

\* The directory holds the pairs of the descriptors ds, the later descriptor
\* winning for a repeated name, and nothing else.
HoldsExactly(dir, ds) ==
  /\ DOMAIN dir = DescNames(ds)
  /\ \A n \in DescNames(ds) : dir[n] = LastID(ds, n)

\* Coroutine i ends successfully in this step: its trigger-list response has
\* been processed to the end.
Completes(i) == connects[i].pc = "recv" /\ connects'[i].pc = "done"

\* C1: when a connect_to_api that follows an earlier successful one has processed
\* its trigger-list response, the directory holds the pairs of that response
\* only: no entry of the earlier connection's response is left.
C1_ReconnectRebuildsDirectory ==
  [][\A i \in 1 .. Len(connects) :
       (Completes(i) /\ \E j \in 1 .. (i - 1) : connects[j].pc = "done")
         => HoldsExactly(titsTriggers', lastResp'.data.triggers)]_vars

\* C3: after a trigger-list response of N well-formed descriptors has been
\* processed, the directory has at most N entries, one per name of the response
\* with the ID of the last descriptor of that name, and no other entry.
C3_DirectoryEqualsResponse ==
  Parses(lastResp)
    => /\ Cardinality(DOMAIN titsTriggers) <= Len(lastResp.data.triggers)
       /\ DOMAIN titsTriggers = DescNames(lastResp.data.triggers)
       /\ \A n \in DOMAIN titsTriggers :
            n \in DescNames(lastResp.data.triggers)
              => titsTriggers[n] = LastID(lastResp.data.triggers, n)

\* ------------------------------------------------ properties: send_trigger
IsActivate(m) == m.msg.messageType = "TITSTriggerActivateRequest"

\* The step runs the send_trigger task at the head of ready.
RunsSendTrigger ==
  /\ ready # <<>>
  /\ Head(ready).kind = "send_trigger"
  /\ ready' = Tail(ready)

\* C2: a trigger-activate message goes out only from send_trigger(name) with
\* name in the directory at that moment, on the current connection and with
\* the directory's ID; send_trigger of a name without entry sends nothing,
\* changes no field and raises nothing.
C2_SendOnlyKnownTriggers ==
  [][/\ \A k \in 1 .. Len(sent') :
          IsActivate(sent'[k])
            => /\ RunsSendTrigger
               /\ Head(ready).name \in DOMAIN titsTriggers
               /\ sent'[k].msg.data.triggerID = titsTriggers[Head(ready).name]
               /\ sent'[k].conn = titsSocket
     /\ (RunsSendTrigger /\ Head(ready).name \notin DOMAIN titsTriggers)
          => /\ sent' = <<>>
             /\ UNCHANGED <<ctxVars, netVars, lastCall, dispatched, raised>>
    ]_vars

\* C2 witness: an activate message has just been put on the open connection.
C2_Witness ==
  /\ Len(sent) = 1
  /\ IsActivate(sent[1])
  /\ sent[1].conn = titsSocket
  /\ titsSocket \in open

\* ---------------------------------------------- properties: notifications
\* How often name occurs in names.
Count(names, name) == Cardinality({k \in 1 .. Len(names) : names[k] = name})

ClassTriggers ==
  {trigger_ap_receive_progression, trigger_ap_receive_useful,
   trigger_ap_receive_trap, trigger_ap_receive_filler}

\* The participant s is the local one: its slot, or a group it belongs to.
IsLocal(s) == s = slot \/ slot \in SlotInfo[s].group_members

\* The latest call handled an ItemSend the local participant both receives
\* and originated.
HandledOwnItem ==
  /\ lastCall.op = "on_print_json"
  /\ Get(lastCall.args, "type", "") = "ItemSend"
  /\ IsLocal(lastCall.args.receiving)
  /\ IsLocal(lastCall.args.item.player)

\* The flag values of the latest call's event, as a set.
FlagSet == {lastCall.args.data[k].flags :
              k \in {j \in 1 .. Len(lastCall.args.data) :
                       "flags" \in DOMAIN lastCall.args.data[j]}}

\* C4: an ItemSend the local participant both receives and originated starts
\* AP-Receive exactly once, whatever flags its parts carry.
C4_ReceiveAnyOnce ==
  HandledOwnItem => Count(dispatched, trigger_ap_receive) = 1

\* C4 witness: such an event, received through the local group, with two
\* parts and no flags.
C4_Witness ==
  /\ HandledOwnItem
  /\ lastCall.args.receiving # slot
  /\ Len(lastCall.args.data) = 2
  /\ FlagSet = {}
  /\ dispatched = <<trigger_ap_receive>>

\* The trigger of the classification value v, "" if v encodes none.
TriggerOfFlags(v) ==
  IF v = 1 THEN trigger_ap_receive_progression
  ELSE IF v = 2 THEN trigger_ap_receive_useful
  ELSE IF v = 4 THEN trigger_ap_receive_trap
  ELSE IF v = 0 THEN trigger_ap_receive_filler
  ELSE ""

\* C5: when every flag-bearing part of such an event has the same value V, the
\* event starts AP-Receive and the one classification trigger of V, each once,
\* and no other; when V is none of 1, 2, 4, 0 it starts AP-Receive alone.
C5_UniformFlagsOneTrigger ==
  (HandledOwnItem /\ Cardinality(FlagSet) = 1)
    => \A v \in FlagSet :
         dispatched =
           IF TriggerOfFlags(v) = "" THEN <<trigger_ap_receive>>
           ELSE <<trigger_ap_receive, TriggerOfFlags(v)>>

\* C5 witness: two trap parts, AP-Receive-Trap started.
C5_Witness ==
  /\ HandledOwnItem
  /\ FlagSet = {4}
  /\ Len(FlagsOf(lastCall.args.data)) = 2
  /\ dispatched = <<trigger_ap_receive, trigger_ap_receive_trap>>

\* C6: when the flag-bearing parts of such an event carry at least two
\* different values, the event starts AP-Receive and no classification trigger.
C6_MixedFlagsNoClassTrigger ==
  (HandledOwnItem /\ Cardinality(FlagSet) >= 2)
    => /\ Count(dispatched, trigger_ap_receive) >= 1
       /\ \A t \in ClassTriggers : Count(dispatched, t) = 0

\* C6 witness: a progression part and a filler part.
C6_Witness ==
  /\ HandledOwnItem
  /\ FlagSet = {0, 1}
  /\ dispatched = <<trigger_ap_receive>>

\* C7: a Goal event whose team is the local team or whose slot is the local
\* participant starts AP-Goal once and nothing else; a Goal event matching
\* neither starts nothing.
C7_GoalOnlyForLocal ==
  (lastCall.op = "on_print_json" /\ Get(lastCall.args, "type", "") = "Goal")
    => dispatched =
         IF lastCall.args.team = team \/ IsLocal(lastCall.args.slot)
         THEN <<trigger_ap_goal>>
         ELSE <<>>

\* C8: every death-link notification starts AP-Deathlink once and nothing
\* else, whatever its payload.
C8_DeathlinkOnce ==
  lastCall.op = "on_deathlink" => dispatched = <<trigger_ap_deathlink>>

\* C8 witness: a death of another participant, with a cause.
C8_Witness ==
  /\ lastCall.op = "on_deathlink"
  /\ lastCall.data = [source |-> "Bob", cause |-> "lava"]
  /\ dispatched = <<trigger_ap_deathlink>>

\* ------------------------------------------------ properties: connecting
\* Coroutine i fails in this step.
Fails(i) == connects[i].pc # "failed" /\ connects'[i].pc = "failed"

\* C9: when a connect_to_api fails, at the handshake or at the trigger list,
\* it ends with titsSocket None, starts no other connect or task, and raises
\* nothing to anybody.
C9_FailedConnectLeavesNoHandle ==
  [][\A i \in 1 .. Len(connects) :
       Fails(i)
         => /\ titsSocket' = None
            /\ Len(connects') = Len(connects)
            /\ ready' = ready
            /\ raised' = raised
            /\ unretrieved' = unretrieved]_vars

\* C9 witness: a connect failed on a malformed answer after its handshake,
\* and a later connect succeeded and holds the handle.
C9_Witness ==
  \E i, j \in 1 .. Len(connects) :
    /\ i < j
    /\ connects[i].pc = "failed"
    /\ connects[j].pc = "done"
    /\ titsSocket = j
    /\ j \in open

\* C10: connection_closed closes the overlay connection when there is one, and
\* with titsSocket None it closes nothing and raises nothing.
C10_ConnectionClosedNeverRaises ==
  lastCall.op = "connection_closed"
    => /\ raised = ""
       /\ lastCall.socket # None => lastCall.socket \notin open

\* -------------------------------------------------- properties: commands
\* This step is a call of disconnect that is not a repetition without effect.
Disconnects ==
  /\ lastCall'.op = "disconnect"
  /\ lastCall.op # "disconnect" \/ game' # game

\* C11: disconnect from the coordination server empties game and leaves
\* titsSocket, titsTriggers, titsAlias and titsPort as they were; it does not
\* close the overlay connection and sends nothing to the overlay.
C11_DisconnectKeepsOverlay ==
  [][Disconnects
       => /\ game' = ""
          /\ UNCHANGED <<titsSocket, titsTriggers, titsAlias, titsPort>>
          /\ UNCHANGED <<open, connects>>
          /\ sent' = <<>>]_vars

\* C11 witness: disconnected with the game forgotten, while the overlay
\* connection is open, the directory filled, alias and port not the defaults.
C11_Witness ==
  /\ lastCall.op = "disconnect"
  /\ game = ""
  /\ titsSocket # None
  /\ titsSocket \in open
  /\ DOMAIN titsTriggers # {}
  /\ titsAlias # DefaultAlias
  /\ titsPort # DefaultPort

\* This step is a call of tits_status.
ReportsStatus == lastCall'.op = "tits_status" /\ lastCall' # lastCall

\* C12: tits_status changes none of titsSocket, titsTriggers, titsAlias,
\* titsPort and sends nothing; it reports a connection, listing exactly the
\* entries of titsTriggers, when titsSocket is not None, and otherwise
\* reports no connection and lists nothing.
C12_StatusOnlyReports ==
  [][ReportsStatus
       => /\ UNCHANGED <<titsSocket, titsTriggers, titsAlias, titsPort>>
          /\ UNCHANGED <<open, connects, ready>>
          /\ sent' = <<>>
          /\ lastCall'.connected = (titsSocket # None)
          /\ IF titsSocket # None
             THEN lastCall'.found = titsTriggers
             ELSE "found" \notin DOMAIN lastCall']_vars

\* C12 witness: a status that reports no connection while the directory
\* still has entries.
C12_Witness ==
  /\ lastCall.op = "tits_status"
  /\ ~lastCall.connected
  /\ titsSocket = None
  /\ DOMAIN titsTriggers # {}

\* This step is on_package("Connected"): the only call of on_package that
\* starts a connect.
ConnectedEvent ==
  /\ lastCall'.op = "on_package"
  /\ Len(connects') = Len(connects) + 1

\* The port given to the latest connect_to_api called, run or not yet.
LastInvokedPort ==
  IF connects = <<>> THEN DefaultPort ELSE connects[Len(connects)].port

\* C13: the connect started by a "Connected" package is given the port of
\* the latest connect_to_api called, or 42069 if there was none.
C13_ConnectedUsesLastInvokedPort ==
  [][ConnectedEvent
       => connects'[Len(connects')].port = LastInvokedPort]_vars

\* C14: titsSocket is None or a connection that is open.
C14_HandleAbsentOrOpen ==
  titsSocket # None => titsSocket \in open

\* ------------------------------------------------ properties: reconnect
\* C15: an activate message sent on a connection carries an ID stored from
\* the trigger-list response read on that same connection, at any time, the
\* time between a reconnect's handshake and its response included.
C15_ActivateIDFromSameConnection ==
  [][\A k \in 1 .. Len(sent') :
       IsActivate(sent'[k])
         => sent'[k].msg.data.triggerID \in connects[sent'[k].conn].ids]_vars

\* This step is a send_trigger whose send fails: the name has an entry and
\* titsSocket is a connection that is closed.
SendFails ==
  /\ RunsSendTrigger
  /\ titsSocket # None
  /\ titsSocket \notin open
  /\ Head(ready).name \in DOMAIN titsTriggers

\* C16: a send_trigger whose send fails on a closed connection ends alone:
\* nothing is sent, nothing is raised to the caller of the handler that
\* started it, the tasks started after it stay queued, and no field of the
\* context changes, so a later connect serves later sends.
C16_FailedSendDropped ==
  [][SendFails
       => /\ sent' = <<>>
          /\ raised' = raised
          /\ unretrieved' = unretrieved \cup {Head(ready).name}
          /\ ready' = Tail(ready)
          /\ UNCHANGED <<ctxVars, connects, open, lastCall, dispatched>>]_vars

\* C16 witness: both sends of one item failed, the second after the first,
\* and after a reconnect an activate message is delivered on the new
\* connection.
C16_Witness ==
  /\ unretrieved = {trigger_ap_receive, trigger_ap_receive_progression}
  /\ titsSocket = 2
  /\ titsSocket \in open
  /\ raised = ""
  /\ Len(sent) = 1
  /\ IsActivate(sent[1])
  /\ sent[1].conn = 2

\* The descriptors of ds before the first one without "name" or "ID".
GoodPrefix(ds) ==
  LET firstBad == CHOOSE k \in 1 .. (Len(ds) + 1) :
                    /\ k = Len(ds) + 1 \/ ds[k] = Bad
                    /\ \A j \in 1 .. (k - 1) : ds[j] # Bad
  IN  SubSeq(ds, 1, firstBad - 1)

\* Coroutine i reads, in this step, an answer that does not parse.
ReadsMalformed(i) ==
  /\ connects[i].pc = "recv"
  /\ i \in open
  /\ Fails(i)
  /\ ~Parses(lastResp')

\* C17: after a malformed trigger-list response the directory is the one
\* before it plus the entries of the descriptors that precede the malformed
\* one, nothing else added and nothing removed, and no error leaves
\* connect_to_api.
C17_MalformedKeepsPrefix ==
  [][\A i \in 1 .. Len(connects) :
       ReadsMalformed(i)
         => LET stored == IF "data" \in DOMAIN lastResp'
                          THEN GoodPrefix(lastResp'.data.triggers)
                          ELSE <<>>
            IN  /\ DOMAIN titsTriggers' = DOMAIN titsTriggers \cup DescNames(stored)
                /\ \A n \in DescNames(stored) :
                     titsTriggers'[n] = LastID(stored, n)
                /\ \A n \in DOMAIN titsTriggers \ DescNames(stored) :
                     titsTriggers'[n] = titsTriggers[n]
                /\ raised' = raised
                /\ unretrieved' = unretrieved]_vars

\* C17 witness: a second connect failed on an answer whose second descriptor
\* is malformed; the directory holds an entry from before and the one of
\* the first descriptor.
C17_Witness ==
  /\ Len(connects) = 2
  /\ connects[1].pc = "done"
  /\ connects[2].pc = "failed"
  /\ lastResp = TriggerList(<<[name |-> trigger_ap_deathlink, ID |-> "id2"], Bad>>)
  /\ titsTriggers = [n \in {trigger_ap_receive, trigger_ap_deathlink} |->
                       IF n = trigger_ap_receive THEN "id1" ELSE "id2"]

\* C18: an item event whose flags all have one classified value starts
\* AP-Receive before the classification trigger; the handler only starts the
\* two tasks and returns with both still queued and nothing sent.
C18_ReceiveAnyFirstNotAwaited ==
  [][(/\ lastCall'.op = "on_print_json"
      /\ Len(ready') > Len(ready)
      /\ HandledOwnItem'
      /\ Cardinality(FlagSet') = 1)
       => \A v \in FlagSet' :
            TriggerOfFlags(v) # ""
              => /\ \E a, b \in 1 .. Len(dispatched') :
                      /\ a < b
                      /\ dispatched'[a] = trigger_ap_receive
                      /\ dispatched'[b] = TriggerOfFlags(v)
                 /\ ready' = ready \o Started(dispatched')
                 /\ sent' = <<>>]_vars

\* C18 witness: the handler of a progression item has returned with the
\* connection open and both triggers in the directory; both sends are still
\* queued and nothing has been sent.
C18_Witness ==
  /\ HandledOwnItem
  /\ FlagSet = {1}
  /\ titsSocket # None
  /\ titsSocket \in open
  /\ {trigger_ap_receive, trigger_ap_receive_progression} \subseteq DOMAIN titsTriggers
  /\ ready = <<SendTask(trigger_ap_receive),
               SendTask(trigger_ap_receive_progression)>>
  /\ sent = <<>>

\* C19: an item event the local participant both receives and originated,
\* none of whose parts has flags, starts AP-Receive once and no
\* classification trigger, AP-Receive-Filler included.
C19_NoFlagsNoClassTrigger ==
  (HandledOwnItem /\ FlagsOf(lastCall.args.data) = <<>>)
    => /\ dispatched = <<trigger_ap_receive>>
       /\ \A t \in ClassTriggers : Count(dispatched, t) = 0

\* C19 witness: such an event with one text part, received by the local slot
\* itself.
C19_Witness ==
  /\ HandledOwnItem
  /\ lastCall.args.receiving = slot
  /\ lastCall.args.data = <<[type |-> "text"]>>
  /\ dispatched = <<trigger_ap_receive>>

\* C20: once connects that overlapped have all come to an end, if one of
\* them succeeded titsSocket is a connection and it is open.
C20_OverlappingConnectsKeepHandle ==
  (/\ Len(connects) >= 2
   /\ NoConnectInFlight
   /\ \E i \in 1 .. Len(connects) : connects[i].pc = "done")
    => /\ titsSocket # None
       /\ titsSocket \in open

====
